---- MODULE Spec2Model ----
(***************************************************************************)
(* Model of the package sorting module (packageSorting.js and              *)
(* packageSortingConfig.js): the RuleEngine class with its constructor,    *)
(* _validateRule, evaluate, addRule and removeRule.                        *)
(*                                                                         *)
(* JavaScript values are records tagged by the field t (the value's kind); *)
(* objects carry their own properties in the field props.                  *)
(***************************************************************************)
EXTENDS Integers, Sequences, FiniteSets, TLC

\* ------------------------------------------------------------------ bounds
\* Largest priority drawn for a rule (priorities are 0..MaxPriority).
MaxPriority == 1
\* Largest length of the array handed to the constructor.
MaxArray == 2
\* Largest number of rules the engine is grown to by addRule.
MaxRules == 3

\* ------------------------------------------------------- JavaScript values
Str(s) == [t |-> "string", s |-> s]
Num(n) == [t |-> "number", n |-> n]
Bool(b) == [t |-> "boolean", b |-> b]
Fn(f) == [t |-> "function", f |-> f]
Obj(p) == [t |-> "object", props |-> p]
Arr(s) == [t |-> "array", elems |-> s]
Null == [t |-> "null"]
Undefined == [t |-> "undefined"]
NaN == [t |-> "number", special |-> "NaN"]
Infinity == [t |-> "number", special |-> "Infinity"]
NegInfinity == [t |-> "number", special |-> "-Infinity"]
\* a number that is no integer, n/d with d > 1 (1.5 is Frac(3, 2))
Frac(n, d) == [t |-> "number", n |-> n, d |-> d]
EmptyProps == [p \in {} |-> Undefined]

\* typeof v
TypeOf(v) ==
  IF v.t \in {"null", "array"} THEN "object" ELSE v.t

\* ToBoolean(v): the truthiness the if statement and the ! operator use
Truthy(v) ==
  CASE v.t = "boolean" -> v.b
    [] v.t = "string" -> v.s # ""
    [] v.t = "number" -> IF "n" \in DOMAIN v THEN v.n # 0 ELSE v # NaN
    [] v.t \in {"null", "undefined"} -> FALSE
    [] OTHER -> TRUE

\* obj.prop: the property, or undefined when the object does not have it
Get(o, p) ==
  IF o.t = "object" /\ p \in DOMAIN o.props THEN o.props[p] ELSE Undefined

\* prop in obj
HasProp(o, p) == o.t = "object" /\ p \in DOMAIN o.props

\* v < 0 for a number v (false for NaN)
LessThanZero(v) == IF "n" \in DOMAIN v THEN v.n < 0 ELSE v = NegInfinity

\* Number.isFinite(v)
IsFinite(v) == v.t = "number" /\ "n" \in DOMAIN v

\* the denominator of a finite number: 1 for an integer
Den(v) == IF "d" \in DOMAIN v THEN v.d ELSE 1

\* the sign of a number that is not NaN
Sign(v) ==
  IF v = Infinity THEN 1
  ELSE IF v = NegInfinity THEN -1
  ELSE IF v.n > 0 THEN 1 ELSE IF v.n < 0 THEN -1 ELSE 0

\* x >= y for numbers: false when either is NaN
GreaterOrEqual(x, y) ==
  IF x = NaN \/ y = NaN THEN FALSE
  ELSE IF ~IsFinite(x) \/ ~IsFinite(y)
    THEN \/ x = y
         \/ x = Infinity
         \/ y = NegInfinity
  ELSE x.n * Den(y) >= y.n * Den(x)

\* x * y for numbers: NaN for NaN operands and for 0 times an infinity
Times(x, y) ==
  IF x = NaN \/ y = NaN THEN NaN
  ELSE IF ~IsFinite(x) \/ ~IsFinite(y)
    THEN IF Sign(x) * Sign(y) = 0 THEN NaN
         ELSE IF Sign(x) * Sign(y) > 0 THEN Infinity ELSE NegInfinity
  ELSE IF Den(x) * Den(y) = 1 THEN Num(x.n * y.n)
  ELSE Frac(x.n * y.n, Den(x) * Den(y))

\* new Error(message)
Error(m) == [t |-> "object", class |-> "Error", props |-> [message |-> Str(m)]]
TypeError(m) ==
  [t |-> "object", class |-> "TypeError", props |-> [message |-> Str(m)]]

\* s.trim() === "" for the strings the model draws
Whitespace == {"", "   "}
\* Variant of TrimIsEmpty: the trim() call is left out
TrimIsEmpty_NoTrim(s) == s = ""

TrimIsEmpty(s) == s \in Whitespace

\* outcome of a call: a returned value or a thrown one
Return(v) == [kind |-> "return", v |-> v]
Throw(v) == [kind |-> "throw", v |-> v]
Pending == [kind |-> "pending"]

\* ------------------------------------------- packageSortingConfig.js
VOLUME_THRESHOLD == 1000000
DIMENSION_THRESHOLD == 150
MASS_THRESHOLD == 20
STANDARD == "STANDARD"
SPECIAL == "SPECIAL"
REJECTED == "REJECTED"
PRIORITY_HIGH == 1
PRIORITY_MEDIUM == 2
PRIORITY_LOW == 3

\* The condition functions: the three of CLASSIFICATION_RULES and the ones
\* the test suite builds (() => false, and a condition that throws).
\* Apply(f, pkg) is the outcome of the call f(pkg).
\* Variant of Apply: the condition of 'special-packages' holds when exactly
\* one of bulky and heavy does
Apply_ExactlyOne(f, pkg) ==
  CASE f = "bulkyAndHeavy" ->
         Return(IF Truthy(Get(pkg, "bulky")) THEN Get(pkg, "heavy")
                                             ELSE Get(pkg, "bulky"))
    [] f = "bulkyOrHeavy" ->
         Return(Bool(Truthy(Get(pkg, "bulky")) # Truthy(Get(pkg, "heavy"))))
    [] f = "alwaysTrue" -> Return(Bool(TRUE))
    [] f = "alwaysFalse" -> Return(Bool(FALSE))
    [] f = "throwsError" -> Throw(Error("Condition error"))
    [] f = "throwsNull" -> Throw(Null)

Apply(f, pkg) ==
  CASE f = "bulkyAndHeavy" ->
         Return(IF Truthy(Get(pkg, "bulky")) THEN Get(pkg, "heavy")
                                             ELSE Get(pkg, "bulky"))
    [] f = "bulkyOrHeavy" ->
         Return(IF Truthy(Get(pkg, "bulky")) THEN Get(pkg, "bulky")
                                             ELSE Get(pkg, "heavy"))
    [] f = "alwaysTrue" -> Return(Bool(TRUE))
    [] f = "alwaysFalse" -> Return(Bool(FALSE))
    [] f = "throwsError" -> Throw(Error("Condition error"))
    [] f = "throwsNull" -> Throw(Null)

\* A rule object { name, condition, result, priority }
RuleObject(n, c, r, p) ==
  Obj([name |-> Str(n), condition |-> Fn(c), result |-> Str(r),
       priority |-> Num(p)])

\* Variant of CLASSIFICATION_RULES: the priorities of the first two rules
\* are exchanged
CLASSIFICATION_RULES_Swapped ==
  Arr(<< RuleObject("rejected-packages", "bulkyAndHeavy", REJECTED,
                    PRIORITY_MEDIUM),
         RuleObject("special-packages", "bulkyOrHeavy", SPECIAL,
                    PRIORITY_HIGH),
         RuleObject("standard-packages", "alwaysTrue", STANDARD,
                    PRIORITY_LOW) >>)

CLASSIFICATION_RULES ==
  Arr(<< RuleObject("rejected-packages", "bulkyAndHeavy", REJECTED,
                    PRIORITY_HIGH),
         RuleObject("special-packages", "bulkyOrHeavy", SPECIAL,
                    PRIORITY_MEDIUM),
         RuleObject("standard-packages", "alwaysTrue", STANDARD,
                    PRIORITY_LOW) >>)

\* --------------------------------------------------- packageSorting.js
\* Variant of isBulky: the volume test is > in place of >=
isBulky_StrictVolume(width, height, length) ==
  IF \/ GreaterOrEqual(width, Num(DIMENSION_THRESHOLD))
     \/ GreaterOrEqual(height, Num(DIMENSION_THRESHOLD))
     \/ GreaterOrEqual(length, Num(DIMENSION_THRESHOLD))
    THEN TRUE
  ELSE LET volume == Times(Times(width, height), length)
       IN  IF /\ GreaterOrEqual(volume, Num(VOLUME_THRESHOLD))
              /\ ~GreaterOrEqual(Num(VOLUME_THRESHOLD), volume)
             THEN TRUE ELSE FALSE

\* isBulky(width, height, length), the arguments being numbers
isBulky(width, height, length) ==
  IF \/ GreaterOrEqual(width, Num(DIMENSION_THRESHOLD))
     \/ GreaterOrEqual(height, Num(DIMENSION_THRESHOLD))
     \/ GreaterOrEqual(length, Num(DIMENSION_THRESHOLD))
    THEN TRUE
  ELSE LET volume == Times(Times(width, height), length)
       IN  IF GreaterOrEqual(volume, Num(VOLUME_THRESHOLD))
             THEN TRUE ELSE FALSE

\* Variant of isHeavy: the test is > in place of >=
isHeavy_Strict(mass) ==
  /\ GreaterOrEqual(mass, Num(MASS_THRESHOLD))
  /\ ~GreaterOrEqual(Num(MASS_THRESHOLD), mass)

\* isHeavy(mass), the argument being a number
isHeavy(mass) == GreaterOrEqual(mass, Num(MASS_THRESHOLD))

requiredProperties == <<"name", "condition", "result", "priority">>

\* Variant of _validateRule: the priority test is <= 0 in place of < 0
_validateRule_RejectsZero(rule) ==
  LET missing == {i \in 1..Len(requiredProperties) :
                    ~HasProp(rule, requiredProperties[i])}
      first == CHOOSE i \in missing : \A j \in missing : i <= j
      name == Get(rule, "name")
      result == Get(rule, "result")
      priority == Get(rule, "priority")
  IN  IF ~Truthy(rule) \/ TypeOf(rule) # "object"
        THEN Throw(Error("Rule must be an object"))
      ELSE IF missing # {}
        THEN Throw(Error("Rule is missing required property: "
                         \o requiredProperties[first]))
      ELSE IF TypeOf(name) # "string" \/ TrimIsEmpty(name.s)
        THEN Throw(Error("Rule name must be a non-empty string"))
      ELSE IF TypeOf(Get(rule, "condition")) # "function"
        THEN Throw(Error("Rule condition must be a function"))
      ELSE IF TypeOf(result) # "string" \/ TrimIsEmpty(result.s)
        THEN Throw(Error("Rule result must be a non-empty string"))
      ELSE IF \/ TypeOf(priority) # "number"
              \/ LessThanZero(priority)
              \/ priority = Num(0)
              \/ ~IsFinite(priority)
        THEN Throw(Error("Rule priority must be a non-negative number"))
      ELSE Return(rule)

\* Variant of _validateRule: the name is tested as soon as it is found
\* present, before the other properties are looked for
_validateRule_NameFirst(rule) ==
  LET missing == {i \in 1..Len(requiredProperties) :
                    ~HasProp(rule, requiredProperties[i])}
      first == CHOOSE i \in missing : \A j \in missing : i <= j
      name == Get(rule, "name")
      result == Get(rule, "result")
      priority == Get(rule, "priority")
  IN  IF ~Truthy(rule) \/ TypeOf(rule) # "object"
        THEN Throw(Error("Rule must be an object"))
      ELSE IF ~HasProp(rule, "name")
        THEN Throw(Error("Rule is missing required property: name"))
      ELSE IF TypeOf(name) # "string" \/ TrimIsEmpty(name.s)
        THEN Throw(Error("Rule name must be a non-empty string"))
      ELSE IF missing # {}
        THEN Throw(Error("Rule is missing required property: "
                         \o requiredProperties[first]))
      ELSE IF TypeOf(Get(rule, "condition")) # "function"
        THEN Throw(Error("Rule condition must be a function"))
      ELSE IF TypeOf(result) # "string" \/ TrimIsEmpty(result.s)
        THEN Throw(Error("Rule result must be a non-empty string"))
      ELSE IF \/ TypeOf(priority) # "number"
              \/ LessThanZero(priority)
              \/ ~IsFinite(priority)
        THEN Throw(Error("Rule priority must be a non-negative number"))
      ELSE Return(rule)

\* RuleEngine._validateRule(rule): returns the rule or throws
_validateRule(rule) ==
  LET missing == {i \in 1..Len(requiredProperties) :
                    ~HasProp(rule, requiredProperties[i])}
      first == CHOOSE i \in missing : \A j \in missing : i <= j
      name == Get(rule, "name")
      result == Get(rule, "result")
      priority == Get(rule, "priority")
  IN  IF ~Truthy(rule) \/ TypeOf(rule) # "object"
        THEN Throw(Error("Rule must be an object"))
      ELSE IF missing # {}
        THEN Throw(Error("Rule is missing required property: "
                         \o requiredProperties[first]))
      ELSE IF TypeOf(name) # "string" \/ TrimIsEmpty(name.s)
        THEN Throw(Error("Rule name must be a non-empty string"))
      ELSE IF TypeOf(Get(rule, "condition")) # "function"
        THEN Throw(Error("Rule condition must be a function"))
      ELSE IF TypeOf(result) # "string" \/ TrimIsEmpty(result.s)
        THEN Throw(Error("Rule result must be a non-empty string"))
      ELSE IF \/ TypeOf(priority) # "number"
              \/ LessThanZero(priority)
              \/ ~IsFinite(priority)
        THEN Throw(Error("Rule priority must be a non-negative number"))
      ELSE Return(rule)

\* The comparator (a, b) => a.priority - b.priority
\* for the finite priorities validation lets through; the difference of n/d
\* and m/e is taken times d*e (Den), which leaves its sign, all the sort reads
comparePriority(a, b) ==
  LET x == Get(a, "priority")
      y == Get(b, "priority")
  IN  x.n * Den(y) - y.n * Den(x)

\* Variant of SortByPriority: the sort call is left out
SortByPriority_Unsorted(s) == s

\* Variant of SortByPriority: an unstable sort, an element goes in front of
\* the elements of equal priority
RECURSIVE SortByPriority_Unstable(_)
SortByPriority_Unstable(s) ==
  IF s = <<>> THEN <<>>
  ELSE LET front == SortByPriority_Unstable(SubSeq(s, 1, Len(s) - 1))
           last == s[Len(s)]
           k == Cardinality({i \in 1..Len(front) :
                               comparePriority(front[i], last) < 0})
       IN  SubSeq(front, 1, k) \o <<last>> \o SubSeq(front, k + 1, Len(front))

\* Array.prototype.sort with that comparator: a stable sort, so an element
\* goes behind every element that does not compare greater than it.
RECURSIVE SortByPriority(_)
SortByPriority(s) ==
  IF s = <<>> THEN <<>>
  ELSE LET front == SortByPriority(SubSeq(s, 1, Len(s) - 1))
           last == s[Len(s)]
           k == Cardinality({i \in 1..Len(front) :
                               comparePriority(front[i], last) <= 0})
       IN  SubSeq(front, 1, k) \o <<last>> \o SubSeq(front, k + 1, Len(front))

\* Variant of MapValidate: an element that fails validation is left out
RECURSIVE MapValidate_SkipInvalid(_)
MapValidate_SkipInvalid(s) ==
  IF s = <<>> THEN Return(<<>>)
  ELSE LET head == _validateRule(Head(s))
           rest == MapValidate_SkipInvalid(Tail(s))
       IN  IF head.kind = "throw" THEN rest
           ELSE Return(<<head.v>> \o rest.v)

\* rules.map((rule) => this._validateRule(rule)): the outcome of the first
\* element that throws, else the mapped array
RECURSIVE MapValidate(_)
MapValidate(s) ==
  IF s = <<>> THEN Return(<<>>)
  ELSE LET head == _validateRule(Head(s))
           rest == MapValidate(Tail(s))
       IN  IF head.kind = "throw" THEN head
           ELSE IF rest.kind = "throw" THEN rest
           ELSE Return(<<head.v>> \o rest.v)

\* Variant of FilterName: only the first rule of that name is taken out
FilterName_FirstOnly(s, ruleName) ==
  IF \E i \in 1..Len(s) : Get(s[i], "name") = ruleName
    THEN LET k == CHOOSE i \in 1..Len(s) :
                    /\ Get(s[i], "name") = ruleName
                    /\ \A j \in 1..(i - 1) : Get(s[j], "name") # ruleName
         IN  SubSeq(s, 1, k - 1) \o SubSeq(s, k + 1, Len(s))
    ELSE s

\* this.rules.filter((rule) => rule.name !== ruleName)
FilterName(s, ruleName) ==
  SelectSeq(s, LAMBDA rule : Get(rule, "name") # ruleName)

\* Variant of SomeName: only the first stored rule is compared
SomeName_FirstOnly(s, name) == s # <<>> /\ Get(s[1], "name") = name

\* this.rules.some((existingRule) => existingRule.name === name)
SomeName(s, name) == \E i \in 1..Len(s) : Get(s[i], "name") = name

\* ------------------------------------------------------------------ state
VARIABLES
  exists,   \* TRUE once new RuleEngine(rules) has returned an instance
  rules,    \* this.rules of that instance
  call,     \* the current or latest call: its operation and its argument
  out,      \* its outcome: Pending, Return(value) or Throw(value)
  idx,      \* evaluate: position of the for...of iterator over this.rules
  invoked   \* evaluate: positions whose condition this call has invoked

vars == <<exists, rules, call, out, idx, invoked>>

Call(op, arg) == [op |-> op, arg |-> arg]

Init ==
  /\ exists = FALSE
  /\ rules = <<>>
  /\ call = Call("none", Undefined)
  /\ out = Return(Undefined)
  /\ idx = 0
  /\ invoked = <<>>

\* No call is running: the program is synchronous, a call starts only when
\* the previous one has returned or thrown.
Idle == out.kind # "pending"

\* Variant of the constructor: the check for an empty array is left out
constructor_NoEmptyCheck(arg) ==
  IF arg.t # "array"
    THEN Throw(Error("Rules must be an array"))
  ELSE LET mapped == MapValidate(arg.elems)
       IN  IF mapped.kind = "throw"
             THEN mapped
             ELSE Return(SortByPriority(mapped.v))

\* constructor(rules): what the constructor throws, or the value of
\* this.rules when it returns
constructor(arg) ==
  IF arg.t # "array"
    THEN Throw(Error("Rules must be an array"))
  ELSE IF Len(arg.elems) = 0
    THEN Throw(Error("Rules array cannot be empty"))
  ELSE LET mapped == MapValidate(arg.elems)
       IN  IF mapped.kind = "throw"
             THEN mapped
             ELSE Return(SortByPriority(mapped.v))

\* new RuleEngine(arg): the one construction of the instance under study; a
\* construction that throws leaves no instance to call anything on
Construct(arg) ==
  /\ call.op = "none"
  /\ ~exists
  /\ call' = Call("new", arg)
  /\ UNCHANGED <<idx, invoked>>
  /\ LET made == constructor(arg)
     IN  IF made.kind = "throw"
           THEN /\ out' = made
                /\ UNCHANGED <<exists, rules>>
           ELSE /\ rules' = made.v
                /\ exists' = TRUE
                /\ out' = Return(Undefined)

\* Variant of addRule: the name is looked up among the stored rules before
\* the rule is validated
addRule_DuplicateFirst(rule) ==
  /\ Idle
  /\ exists
  /\ LET validated == _validateRule(rule)
     IN  IF Get(rule, "name").t = "string" /\ SomeName(rules, Get(rule, "name"))
           THEN /\ out' = Throw(Error("Rule with name \""
                                      \o Get(rule, "name").s
                                      \o "\" already exists"))
                /\ UNCHANGED rules
         ELSE IF validated.kind = "throw"
           THEN /\ out' = validated
                /\ UNCHANGED rules
         ELSE /\ Len(rules) < MaxRules
              /\ rules' = SortByPriority(Append(rules, validated.v))
              /\ out' = Return(Undefined)
  /\ call' = Call("addRule", rule)
  /\ UNCHANGED <<exists, idx, invoked>>

\* engine.addRule(rule)
addRule(rule) ==
  /\ Idle
  /\ exists
  /\ LET validated == _validateRule(rule)
     IN  IF validated.kind = "throw"
           THEN /\ out' = validated
                /\ UNCHANGED rules
         ELSE IF SomeName(rules, Get(validated.v, "name"))
           THEN /\ out' = Throw(Error("Rule with name \""
                                      \o Get(validated.v, "name").s
                                      \o "\" already exists"))
                /\ UNCHANGED rules
         ELSE /\ Len(rules) < MaxRules
              /\ rules' = SortByPriority(Append(rules, validated.v))
              /\ out' = Return(Undefined)
  /\ call' = Call("addRule", rule)
  /\ UNCHANGED <<exists, idx, invoked>>

\* engine.removeRule(ruleName)
removeRule(ruleName) ==
  /\ Idle
  /\ exists
  /\ call' = Call("removeRule", ruleName)
  /\ UNCHANGED <<exists, idx, invoked>>
  /\ IF TypeOf(ruleName) # "string" \/ TrimIsEmpty(ruleName.s)
       THEN /\ out' = Throw(Error("Rule name must be a non-empty string"))
            /\ UNCHANGED rules
     ELSE LET initialLength == Len(rules)
              filtered == FilterName(rules, ruleName)
          IN  /\ rules' = filtered
              /\ out' = IF Len(filtered) = initialLength
                          THEN Throw(Error("Rule with name \"" \o ruleName.s
                                           \o "\" not found"))
                          ELSE Return(Undefined)

\* Variant of InvalidPackageData: only the typeof test, which null passes
InvalidPackageData_TypeofOnly(packageData) == TypeOf(packageData) # "object"

\* !packageData || typeof packageData !== "object"
InvalidPackageData(packageData) ==
  ~Truthy(packageData) \/ TypeOf(packageData) # "object"

\* engine.evaluate(packageData): the argument check and the start of the loop
evaluate(packageData) ==
  /\ Idle
  /\ exists
  /\ call' = Call("evaluate", packageData)
  /\ invoked' = <<>>
  /\ UNCHANGED <<exists, rules>>
  /\ IF InvalidPackageData(packageData)
       THEN /\ out' = Throw(Error("Package data must be an object"))
            /\ idx' = 0
       ELSE /\ out' = Pending
            /\ idx' = 1

\* `${error.message}` in the catch block of evaluate: reading a property of
\* null or undefined throws a TypeError, a missing property reads undefined
ErrorMessage(error) ==
  IF error.t \in {"null", "undefined"}
    THEN Throw(TypeError("Cannot read properties of " \o error.t
                         \o " (reading 'message')"))
  ELSE IF Get(error, "message").t = "string"
    THEN Return(Get(error, "message").s)
  ELSE Return("undefined")

\* Variant of LoopDone: the loop stops one rule early
LoopDone_OneEarly(s, i) == i >= Len(s)

\* the for...of iterator over this.rules is exhausted at position i
LoopDone(s, i) == i > Len(s)

\* Variant of NoMatchingRule: the throw is left out, evaluate falls off its end
NoMatchingRule_Returns == Return(Undefined)

\* the throw behind the loop of evaluate
NoMatchingRule == Throw(Error("No matching rule found for package data"))

\* Variant of LoopBody: the test of the condition's value is inverted
LoopBody_Inverted(rule, packageData) ==
  LET res == Apply(Get(rule, "condition").f, packageData)
      msg == ErrorMessage(res.v)
  IN  IF res.kind = "throw"
        THEN IF msg.kind = "throw" THEN msg
             ELSE Throw(Error("Error evaluating rule \"" \o Get(rule, "name").s
                              \o "\": " \o msg.v))
      ELSE IF ~Truthy(res.v) THEN Return(Get(rule, "result"))
      ELSE Pending

\* Variant of LoopBody: the return inside the loop is left out, so that the
\* rules behind a match are still tried
LoopBody_NoReturn(rule, packageData) ==
  LET res == Apply(Get(rule, "condition").f, packageData)
      msg == ErrorMessage(res.v)
  IN  IF res.kind = "throw"
        THEN IF msg.kind = "throw" THEN msg
             ELSE Throw(Error("Error evaluating rule \"" \o Get(rule, "name").s
                              \o "\": " \o msg.v))
      ELSE Pending

\* Variant of LoopBody: the condition's value is compared with true
\* (=== true) in place of being tested for truthiness
LoopBody_StrictTrue(rule, packageData) ==
  LET res == Apply(Get(rule, "condition").f, packageData)
      msg == ErrorMessage(res.v)
  IN  IF res.kind = "throw"
        THEN IF msg.kind = "throw" THEN msg
             ELSE Throw(Error("Error evaluating rule \"" \o Get(rule, "name").s
                              \o "\": " \o msg.v))
      ELSE IF res.v = Bool(TRUE) THEN Return(Get(rule, "result"))
      ELSE Pending

\* The body of the loop of evaluate for one rule: Return(result) when the
\* condition's value is truthy, Pending (go on with the next rule) when it is
\* falsy, and the throw of the catch block when the condition throws.
LoopBody(rule, packageData) ==
  LET res == Apply(Get(rule, "condition").f, packageData)
      msg == ErrorMessage(res.v)
  IN  IF res.kind = "throw"
        THEN IF msg.kind = "throw" THEN msg
             ELSE Throw(Error("Error evaluating rule \"" \o Get(rule, "name").s
                              \o "\": " \o msg.v))
      ELSE IF Truthy(res.v) THEN Return(Get(rule, "result"))
      ELSE Pending

\* Variant of evaluateStep: the loop takes the rules off the stored array
\* (while (rule = this.rules.shift())) in place of iterating over it
evaluateStep_Shift ==
  /\ out = Pending
  /\ call.op = "evaluate"
  /\ UNCHANGED <<exists, call>>
  /\ IF rules = <<>>
       THEN /\ out' = NoMatchingRule
            /\ UNCHANGED <<rules, idx, invoked>>
       ELSE /\ invoked' = Append(invoked, idx)
            /\ out' = LoopBody(rules[1], call.arg)
            /\ rules' = Tail(rules)
            /\ idx' = IF out'.kind = "pending" THEN idx + 1 ELSE idx

\* evaluate: one turn of the for...of loop, or the throw behind the loop
evaluateStep ==
  /\ out = Pending
  /\ call.op = "evaluate"
  /\ UNCHANGED <<exists, rules, call>>
  /\ IF LoopDone(rules, idx)
       THEN /\ out' = NoMatchingRule
            /\ UNCHANGED <<idx, invoked>>
       ELSE /\ invoked' = Append(invoked, idx)
            /\ out' = LoopBody(rules[idx], call.arg)
            /\ idx' = IF out'.kind = "pending" THEN idx + 1 ELSE idx

\* the for...of loop of evaluate from position i on, and the throw behind it
RECURSIVE evaluateLoop(_, _, _)
evaluateLoop(s, packageData, i) ==
  IF LoopDone(s, i) THEN NoMatchingRule
  ELSE LET turn == LoopBody(s[i], packageData)
       IN  IF turn.kind = "pending" THEN evaluateLoop(s, packageData, i + 1)
           ELSE turn

\* ruleEngine.evaluate(packageData) as one call on the rules s
evaluateCall(s, packageData) ==
  IF InvalidPackageData(packageData)
    THEN Throw(Error("Package data must be an object"))
    ELSE evaluateLoop(s, packageData, 1)

\* sort(width, height, length, mass): the engine it creates is local to the
\* call; the record it builds is kept as the argument of the call
sort(width, height, length, mass) ==
  /\ call.op = "none"
  /\ UNCHANGED <<exists, rules, idx, invoked>>
  /\ LET packageData ==
           Obj([width |-> width, height |-> height,
                length |-> length, mass |-> mass,
                bulky |-> Bool(isBulky(width, height, length)),
                heavy |-> Bool(isHeavy(mass))])
         ruleEngine == constructor(CLASSIFICATION_RULES)
     IN  /\ call' = Call("sort", packageData)
         /\ out' = IF ruleEngine.kind = "throw" THEN ruleEngine
                   ELSE evaluateCall(ruleEngine.v, packageData)

\* The caller assigns value to the property prop of a rule object it has
\* passed to the constructor or to addRule. _validateRule returns the object
\* it was given and the engine stores that object, not a copy: the object the
\* caller assigns to is the one stored, here the one at position i.
assign(i, prop, value) ==
  /\ Idle
  /\ exists
  /\ i \in 1..Len(rules)
  /\ call' = Call("assign", Obj([index |-> Num(i), prop |-> Str(prop),
                                 value |-> value]))
  /\ rules' = [rules EXCEPT ![i] = Obj([@.props EXCEPT ![prop] = value])]
  /\ out' = Return(Undefined)
  /\ UNCHANGED <<exists, idx, invoked>>

\* the earlier sort(width, height, length, mass), the decision matrix
sortOriginal(width, height, length, mass) ==
  LET bulky == isBulky(width, height, length)
      heavy == isHeavy(mass)
  IN  IF bulky /\ heavy THEN Str(REJECTED)
      ELSE IF bulky \/ heavy THEN Str(SPECIAL)
      ELSE Str(STANDARD)

\* ----------------------------------------------------------------- inputs
Names == {"a", "b", "c"}
ResultOf(n) == CASE n = "a" -> "A" [] n = "b" -> "B" [] n = "c" -> "C"

\* rule objects that pass validation
ValidRules(names, conditions, priorities) ==
  {RuleObject(n, c, ResultOf(n), p) :
     n \in names, c \in conditions, p \in priorities}

\* rule arguments that fail validation
InvalidRules ==
  { Null,
    Obj([name |-> Str("a")]) }

\* arrays of at most MaxArray elements, and two values that are no arrays
RECURSIVE SeqsUpTo(_, _)
SeqsUpTo(S, n) ==
  IF n = 0 THEN {<<>>}
  ELSE LET shorter == SeqsUpTo(S, n - 1)
       IN  shorter \cup {Append(s, x) : s \in shorter, x \in S}

ConstructorArgs(ruleInputs) ==
  {Null, Str("not an array")} \cup {Arr(s) : s \in SeqsUpTo(ruleInputs, MaxArray)}

RuleNames == {Str(n) : n \in Names} \cup {Str(""), Str("   "), Null}

Package(bulky, heavy) == Obj([bulky |-> Bool(bulky), heavy |-> Bool(heavy)])
Packages == {Package(FALSE, FALSE), Package(TRUE, FALSE), Null}

\* rule arguments for validation: an object put together from a choice for
\* each of the four properties, Absent leaving the property out
Absent == [t |-> "absent"]
RuleWith(n, c, r, p) ==
  LET all == [name |-> n, condition |-> c, result |-> r, priority |-> p]
  IN  Obj([f \in {g \in DOMAIN all : all[g] # Absent} |-> all[f]])
NameInputs == {Absent, Str("a"), Str("   "), Num(1)}
ConditionInputs == {Absent, Fn("alwaysTrue"), Str("f")}
ResultInputs == {Absent, Str("A"), Str("")}
PriorityInputs ==
  {Absent, Num(0), Frac(3, 2), Num(-1), NaN, Infinity, NegInfinity, Str("1")}
RichRules ==
  {RuleWith(n, c, r, p) : n \in NameInputs, c \in ConditionInputs,
                          r \in ResultInputs, p \in PriorityInputs}
    \cup {Null, Undefined, Str("rule"), Num(1), Fn("alwaysTrue"), Arr(<<>>)}

\* elements of the longer arrays: a rule that passes and two that fail
ArrayRules ==
  { RuleObject("b", "alwaysTrue", "B", 1),
    RuleWith(Str("c"), Fn("alwaysTrue"), Str("C"), Num(-1)),
    Null }

\* arguments of evaluate: no object, and one record
ValidatePackages ==
  { Null, Undefined, Str("package"), Str(""), Num(1), Num(0), Bool(TRUE),
    Bool(FALSE), Package(TRUE, FALSE) }

\* ---------------------------------------------------------- specifications
\* Spec: three rule names, every priority, one condition
RuleInputs ==
  ValidRules(Names, {"bulkyOrHeavy"}, 0..MaxPriority) \cup InvalidRules

Next ==
  \/ \E arg \in ConstructorArgs(RuleInputs) : Construct(arg)
  \/ \E rule \in RuleInputs : addRule(rule)
  \/ \E ruleName \in RuleNames : removeRule(ruleName)
  \/ \E packageData \in Packages : evaluate(packageData)
  \/ evaluateStep

Spec == Init /\ [][Next]_vars

\* SpecEval: two rule names ("a" at priority 1, "b" at priority 0),
\* conditions that return and conditions that throw
EvalRuleInputs ==
  {rule \in ValidRules({"a", "b"},
                       {"alwaysTrue", "bulkyOrHeavy", "throwsError",
                        "throwsNull"},
                       {0, 1}) :
     Get(rule, "name") = Str("a") <=> Get(rule, "priority") = Num(1)}
    \cup {Null}

NextEval ==
  \/ \E arg \in ConstructorArgs(EvalRuleInputs) : Construct(arg)
  \/ \E rule \in EvalRuleInputs : addRule(rule)
  \/ \E ruleName \in RuleNames : removeRule(ruleName)
  \/ \E packageData \in Packages : evaluate(packageData)
  \/ evaluateStep

SpecEval == Init /\ [][NextEval]_vars

\* ------------------------------------------------------------------ claims
\* SpecValidate: every combination of present, absent, valid and invalid
\* properties of a rule, handed to addRule and to the constructor
ValidateArgs ==
  ConstructorArgs(ArrayRules) \cup {Arr(<<rule>>) : rule \in RichRules}

NextValidate ==
  \/ \E arg \in ValidateArgs : Construct(arg)
  \/ \E rule \in RichRules : addRule(rule)
  \/ \E packageData \in ValidatePackages : evaluate(packageData)
  \/ evaluateStep

SpecValidate == Init /\ [][NextValidate]_vars

\* SpecSort: one call of sort. Integer dimensions and masses on both sides
\* of the thresholds, zero and negative values among them; and a smaller set
\* of dimensions with 149.5, NaN and the infinities, each with every mass,
\* 19.99, 20.01, NaN and the infinities among them.
Dimensions ==
  {Num(n) : n \in {-200, -150, -100, -1, 0, 1, 99, 100, 101, 149, 150, 151}}
Masses == {Num(n) : n \in {-1, 0, 19, 20, 21}}
OtherDimensions ==
  {Num(0), Num(100), Num(150), Frac(299, 2), NaN, Infinity, NegInfinity}
OtherMasses ==
  {Frac(1999, 100), Frac(2001, 100), Frac(1, 10), NaN, Infinity, NegInfinity}
SortArgs ==
  (Dimensions \X Dimensions \X Dimensions \X Masses)
    \cup (OtherDimensions \X OtherDimensions \X OtherDimensions
            \X (Masses \cup OtherMasses))

NextSort ==
  \E args \in SortArgs : sort(args[1], args[2], args[3], args[4])

SpecSort == Init /\ [][NextSort]_vars

\* SpecDefault: an engine of the default rules, evaluated on records built
\* from dimensions and a mass, on records of the two flags alone and on {}
PackageData(width, height, length, mass) ==
  Obj([width |-> width, height |-> height, length |-> length, mass |-> mass,
       bulky |-> Bool(isBulky(width, height, length)),
       heavy |-> Bool(isHeavy(mass))])
DefaultDimensions == {Num(99), Num(100), Num(200), Frac(299, 2)}
DefaultMasses == {Num(15), Num(20), Num(25), Frac(1999, 100)}
DefaultPackages ==
  {PackageData(w, h, l, m) : w, h, l \in DefaultDimensions,
                             m \in DefaultMasses}
    \cup {Package(b, h) : b, h \in BOOLEAN}
    \cup {Obj(EmptyProps)}

NextDefault ==
  \/ Construct(CLASSIFICATION_RULES)
  \/ \E packageData \in DefaultPackages : evaluate(packageData)
  \/ evaluateStep

SpecDefault == Init /\ [][NextDefault]_vars

\* SpecConcurrent: two evaluate calls on one engine, their loop turns taken
\* in any order. Each call has its own argument, outcome, iterator and log:
\* call, out, idx and invoked hold one value for each caller.
Callers == {1, 2}

ConcurrentEngines ==
  {constructor(arg).v :
     arg \in {a \in ConstructorArgs(EvalRuleInputs) :
                constructor(a).kind = "return"}}

InitConcurrent ==
  /\ exists = TRUE
  /\ rules \in ConcurrentEngines
  /\ call = [c \in Callers |-> Call("none", Undefined)]
  /\ out = [c \in Callers |-> Return(Undefined)]
  /\ idx = [c \in Callers |-> 0]
  /\ invoked = [c \in Callers |-> <<>>]

\* caller c calls engine.evaluate(packageData): the argument check and the
\* start of its loop
evaluateOf(c, packageData) ==
  /\ out[c].kind # "pending"
  /\ call' = [call EXCEPT ![c] = Call("evaluate", packageData)]
  /\ invoked' = [invoked EXCEPT ![c] = <<>>]
  /\ UNCHANGED <<exists, rules>>
  /\ IF InvalidPackageData(packageData)
       THEN /\ out' = [out EXCEPT
                         ![c] = Throw(Error("Package data must be an object"))]
            /\ idx' = [idx EXCEPT ![c] = 0]
       ELSE /\ out' = [out EXCEPT ![c] = Pending]
            /\ idx' = [idx EXCEPT ![c] = 1]

\* Variant of evaluateStepOf: one iterator for all calls, so that a turn of
\* one call moves every running call on
evaluateStepOf_SharedIterator(c) ==
  /\ out[c] = Pending
  /\ UNCHANGED <<exists, rules, call>>
  /\ IF LoopDone(rules, idx[c])
       THEN /\ out' = [out EXCEPT ![c] = NoMatchingRule]
            /\ UNCHANGED <<idx, invoked>>
       ELSE LET turn == LoopBody(rules[idx[c]], call[c].arg)
            IN  /\ invoked' = [invoked EXCEPT ![c] = Append(@, idx[c])]
                /\ out' = [out EXCEPT ![c] = turn]
                /\ idx' = [d \in Callers |->
                             IF turn.kind = "pending" /\ out[d] = Pending
                               THEN idx[d] + 1 ELSE idx[d]]

\* one turn of the loop of the evaluate call of caller c, or the throw behind
\* the loop
evaluateStepOf(c) ==
  /\ out[c] = Pending
  /\ UNCHANGED <<exists, rules, call>>
  /\ IF LoopDone(rules, idx[c])
       THEN /\ out' = [out EXCEPT ![c] = NoMatchingRule]
            /\ UNCHANGED <<idx, invoked>>
       ELSE LET turn == LoopBody(rules[idx[c]], call[c].arg)
            IN  /\ invoked' = [invoked EXCEPT ![c] = Append(@, idx[c])]
                /\ out' = [out EXCEPT ![c] = turn]
                /\ idx' = [idx EXCEPT
                             ![c] = IF turn.kind = "pending" THEN @ + 1 ELSE @]

NextConcurrent ==
  \/ \E c \in Callers, packageData \in Packages : evaluateOf(c, packageData)
  \/ \E c \in Callers : evaluateStepOf(c)

SpecConcurrent == InitConcurrent /\ [][NextConcurrent]_vars

\* SpecAlias: the caller keeps the rule objects it passed in and assigns to
\* their properties between the calls
AliasRuleInputs ==
  {RuleObject("a", "alwaysTrue", "A", 1), RuleObject("b", "bulkyOrHeavy", "B", 0)}
Assignments ==
  {<<"result", Str("X")>>, <<"priority", Num(2)>>, <<"name", Str("b")>>}

NextAlias ==
  \/ \E arg \in ConstructorArgs(AliasRuleInputs) : Construct(arg)
  \/ \E i \in 1..MaxArray, a \in Assignments : assign(i, a[1], a[2])
  \/ \E packageData \in Packages : evaluate(packageData)
  \/ evaluateStep

SpecAlias == Init /\ [][NextAlias]_vars

\* SpecShared: the arrays of the program as objects of the heap. rules holds
\* the elements of every array by its reference: "shared" is the array
\* CLASSIFICATION_RULES exported by the configuration, "caller" an array of
\* the caller, "own1" and "own2" the arrays made for the engines 1 and 2 and
\* "local" the one made for the engine of a sort call. exists holds for each
\* engine the reference this.rules, "none" before the engine is constructed.
Engines == {1, 2}
Sources == {"shared", "caller"}
OwnArray(e) == IF e = 1 THEN "own1" ELSE "own2"
References == Sources \cup {OwnArray(e) : e \in Engines} \cup {"local"}

SharedRuleInputs ==
  {RuleObject("a", "alwaysTrue", "A", 1), RuleObject("b", "bulkyOrHeavy", "B", 0)}
\* a caller's array that is not in priority order, and one of a single rule
CallerArrays ==
  { << RuleObject("a", "alwaysTrue", "A", 1),
       RuleObject("b", "bulkyOrHeavy", "B", 0) >>,
    << RuleObject("b", "bulkyOrHeavy", "B", 0) >> }
SharedAddInputs == SharedRuleInputs \cup {Null}
SharedNames == {Str("a"), Str("b"), Str("special-packages"), Null}
SharedSortArgs ==
  {<<w, Num(100), Num(100), Num(15)>> : w \in {Num(100), Num(200)}}

InitShared ==
  /\ exists = [e \in Engines |-> "none"]
  /\ \E elems \in CallerArrays :
       rules = [r \in References |->
                  IF r = "shared" THEN CLASSIFICATION_RULES.elems
                  ELSE IF r = "caller" THEN elems
                  ELSE <<>>]
  /\ call = Call("none", Undefined)
  /\ out = Return(Undefined)
  /\ idx = 0
  /\ invoked = <<>>

\* Variant of mapResult: no new array is made, this.rules is the array that
\* was passed in
mapResult_SameArray(own, source) == source

\* rules.map(...) returns a new array, here the one reserved for the engine
mapResult(own, source) == own

\* engine e = new RuleEngine(array), array being the shared or the caller's
\* array: this.rules is the array map returns, and sort orders that array in
\* place
ConstructShared(e, source) ==
  /\ exists[e] = "none"
  /\ call' = Call("new", Obj([engine |-> Num(e), rules |-> Str(source)]))
  /\ UNCHANGED <<idx, invoked>>
  /\ LET made == constructor(Arr(rules[source]))
         thisRules == mapResult(OwnArray(e), source)
     IN  IF made.kind = "throw"
           THEN /\ out' = made
                /\ UNCHANGED <<exists, rules>>
           ELSE /\ out' = Return(Undefined)
                /\ exists' = [exists EXCEPT ![e] = thisRules]
                /\ rules' = [rules EXCEPT ![thisRules] = made.v]

\* engine e .addRule(rule): push and sort act on the array this.rules
addRuleShared(e, rule) ==
  /\ exists[e] # "none"
  /\ call' = Call("addRule", Obj([engine |-> Num(e), rule |-> rule]))
  /\ UNCHANGED <<exists, idx, invoked>>
  /\ LET thisRules == exists[e]
         validated == _validateRule(rule)
     IN  IF validated.kind = "throw"
           THEN /\ out' = validated
                /\ UNCHANGED rules
         ELSE IF SomeName(rules[thisRules], Get(validated.v, "name"))
           THEN /\ out' = Throw(Error("Rule with name \""
                                      \o Get(validated.v, "name").s
                                      \o "\" already exists"))
                /\ UNCHANGED rules
         ELSE /\ Len(rules[thisRules]) <= MaxRules
              /\ rules' = [rules EXCEPT ![thisRules] =
                             SortByPriority(Append(@, validated.v))]
              /\ out' = Return(Undefined)

\* engine e .removeRule(ruleName): filter returns a new array, which
\* this.rules refers to from then on; the array it referred to is left as
\* it was
removeRuleShared(e, ruleName) ==
  /\ exists[e] # "none"
  /\ call' = Call("removeRule", Obj([engine |-> Num(e), ruleName |-> ruleName]))
  /\ UNCHANGED <<idx, invoked>>
  /\ IF TypeOf(ruleName) # "string" \/ TrimIsEmpty(ruleName.s)
       THEN /\ out' = Throw(Error("Rule name must be a non-empty string"))
            /\ UNCHANGED <<exists, rules>>
     ELSE LET initialLength == Len(rules[exists[e]])
              filtered == FilterName(rules[exists[e]], ruleName)
          IN  /\ exists' = [exists EXCEPT ![e] = OwnArray(e)]
              /\ rules' = [rules EXCEPT ![OwnArray(e)] = filtered]
              /\ out' = IF Len(filtered) = initialLength
                          THEN Throw(Error("Rule with name \"" \o ruleName.s
                                           \o "\" not found"))
                          ELSE Return(Undefined)

\* sort(width, height, length, mass) with its engine made from the shared
\* array as that array is at the time of the call
sortShared(width, height, length, mass) ==
  /\ UNCHANGED <<exists, idx, invoked>>
  /\ LET packageData == PackageData(width, height, length, mass)
         ruleEngine == constructor(Arr(rules["shared"]))
         thisRules == mapResult("local", "shared")
     IN  /\ call' = Call("sort", packageData)
         /\ IF ruleEngine.kind = "throw"
              THEN /\ out' = ruleEngine
                   /\ UNCHANGED rules
              ELSE /\ rules' = [rules EXCEPT ![thisRules] = ruleEngine.v]
                   /\ out' = evaluateCall(ruleEngine.v, packageData)

NextShared ==
  \/ \E e \in Engines, source \in Sources : ConstructShared(e, source)
  \/ \E e \in Engines, rule \in SharedAddInputs : addRuleShared(e, rule)
  \/ \E e \in Engines, ruleName \in SharedNames : removeRuleShared(e, ruleName)
  \/ \E args \in SharedSortArgs : sortShared(args[1], args[2], args[3], args[4])

SpecShared == InitShared /\ [][NextShared]_vars

\* SpecTruthy: records whose bulky and heavy properties are missing or hold
\* values that are no booleans, so that the conditions p.bulky && p.heavy and
\* p.bulky || p.heavy return values that are no booleans
FlagValues ==
  {Absent, Undefined, Null, Bool(FALSE), Bool(TRUE), Num(0), Num(1), Str(""),
   Str("yes"), NaN}
FlagRecord(bulky, heavy) ==
  LET all == [bulky |-> bulky, heavy |-> heavy]
  IN  Obj([p \in {q \in DOMAIN all : all[q] # Absent} |-> all[p]])
TruthyPackages == {FlagRecord(b, h) : b, h \in FlagValues}
TruthyRuleInputs ==
  {RuleObject("a", "bulkyAndHeavy", "A", 0),
   RuleObject("b", "bulkyOrHeavy", "B", 1)}

NextTruthy ==
  \/ \E arg \in {CLASSIFICATION_RULES}
                  \cup {Arr(s) : s \in SeqsUpTo(TruthyRuleInputs, MaxArray)} :
       Construct(arg)
  \/ \E packageData \in TruthyPackages : evaluate(packageData)
  \/ evaluateStep

SpecTruthy == Init /\ [][NextTruthy]_vars

NameOf(rule) == Get(rule, "name")
PriorityOf(rule) == Get(rule, "priority").n
ResultOfRule(rule) == Get(rule, "result")
ConditionOutcome(rule, packageData) ==
  Apply(Get(rule, "condition").f, packageData)
\* the condition returns a truthy value / returns a falsy value / throws
Matches(rule, packageData) ==
  LET res == ConditionOutcome(rule, packageData)
  IN  res.kind = "return" /\ Truthy(res.v)
Declines(rule, packageData) ==
  LET res == ConditionOutcome(rule, packageData)
  IN  res.kind = "return" /\ ~Truthy(res.v)
Raises(rule, packageData) == ConditionOutcome(rule, packageData).kind = "throw"
ValidPackage(packageData) == packageData.t = "object"
ValidRule(rule) == _validateRule(rule).kind = "return"
\* an evaluate call on a valid record has ended
EvaluateEnded ==
  call.op = "evaluate" /\ ValidPackage(call.arg) /\ out.kind # "pending"
RemoveAt(s, k) == SubSeq(s, 1, k - 1) \o SubSeq(s, k + 1, Len(s))
AlreadyExists(name) ==
  Throw(Error("Rule with name \"" \o name \o "\" already exists"))
RuleExecutionMessages(name) ==
  {"Error evaluating rule \"" \o name \o "\": " \o m :
     m \in {"Condition error", "undefined", "null"}}

\* C1: whatever array of valid rules the engine was constructed from and
\* whatever addRule and removeRule calls followed, no two stored rules have
\* the same name.
C1_UniqueNames ==
  \A i, j \in 1..Len(rules) : i # j => NameOf(rules[i]) # NameOf(rules[j])

\* C2: after successful construction and any sequence of addRule and
\* removeRule calls, successful or failed, the stored rules are in
\* non-decreasing order of priority.
C2_SortedByPriority ==
  \A i \in 1..(Len(rules) - 1) : PriorityOf(rules[i]) <= PriorityOf(rules[i + 1])

\* C2 witness: the constructor was given an array in decreasing order of
\* priority and an addRule that had to move its rule forward has succeeded.
C2_Witness ==
  /\ exists
  /\ call.op = "addRule"
  /\ out.kind = "return"
  /\ Len(rules) = 3
  /\ rules[3] # call.arg
  /\ PriorityOf(rules[1]) < PriorityOf(rules[3])

\* C3: when evaluate ends on a valid record and rule k is the first stored
\* rule whose condition holds, no rule before it raising, then evaluate
\* returned the result of rule k and invoked exactly the rules 1..k; so it
\* never returns the result of a later matching rule.
C3_FirstMatchWins ==
  EvaluateEnded =>
    \A k \in 1..Len(rules) :
      (/\ Matches(rules[k], call.arg)
       /\ \A j \in 1..(k - 1) : Declines(rules[j], call.arg))
      => /\ out = Return(ResultOfRule(rules[k]))
         /\ invoked = [i \in 1..k |-> i]

\* C3 witness: evaluate returned the result of the second rule although the
\* third rule matches too.
C3_Witness ==
  /\ EvaluateEnded
  /\ Len(rules) = 3
  /\ Declines(rules[1], call.arg)
  /\ Matches(rules[2], call.arg)
  /\ Matches(rules[3], call.arg)
  /\ ResultOfRule(rules[2]) # ResultOfRule(rules[3])
  /\ out = Return(ResultOfRule(rules[2]))

\* C4: during one evaluate call the conditions are invoked one at a time in
\* stored order starting from the first rule, each at most once (a step of the
\* call invokes at most one more condition, the next in stored order), and
\* once a condition has matched the call has ended and no condition of a
\* later rule is invoked.
C4_InvokedInOrder ==
  call.op = "evaluate" =>
    /\ \A i \in 1..Len(invoked) : invoked[i] = i
    /\ Len(invoked) <= Len(rules)
    /\ \A i \in 1..(Len(invoked) - 1) : ~Matches(rules[invoked[i]], call.arg)
    /\ (invoked # <<>> /\ Matches(rules[invoked[Len(invoked)]], call.arg))
         => out.kind = "return"

\* C4: the invocation log is in stored order at every state, and every step
\* that extends it belongs to the pending call and appends the next position.
C4_InvocationOrder ==
  /\ []C4_InvokedInOrder
  /\ [][(invoked' # invoked /\ invoked' # <<>>)
          => /\ out = Pending
             /\ call' = call
             /\ invoked' = Append(invoked, Len(invoked) + 1)]_vars

\* C4 witness: the first two conditions were invoked and the second matched,
\* with a third rule stored behind it.
C4_Witness ==
  /\ EvaluateEnded
  /\ Len(rules) = 3
  /\ invoked = <<1, 2>>
  /\ Matches(rules[2], call.arg)

\* C5: whenever the condition of a rule raises during evaluate, whatever it
\* raises, evaluate fails with an Error whose message names that rule and
\* carries the underlying message, and no later condition is invoked.
C5_RaiseIsWrapped ==
  EvaluateEnded =>
    \A i \in 1..Len(invoked) :
      Raises(rules[invoked[i]], call.arg)
      => /\ i = Len(invoked)
         /\ out.kind = "throw"
         /\ out.v.class = "Error"
         /\ Get(out.v, "message").s
              \in RuleExecutionMessages(NameOf(rules[invoked[i]]).s)

\* C6: an existing engine always holds at least one rule.
C6_AtLeastOneRule == exists => Len(rules) >= 1

\* C7: when evaluate ends on a valid record and every stored rule's condition
\* returned without raising and none held, evaluate failed with the error
\* "No matching rule found for package data" and returned no label.
C7_NoMatchError ==
  (EvaluateEnded /\ \A i \in 1..Len(rules) : Declines(rules[i], call.arg))
  => /\ out = Throw(Error("No matching rule found for package data"))
     /\ invoked = [i \in 1..Len(rules) |-> i]

\* C7 witness: two stored rules, both invoked, neither matched.
C7_Witness ==
  /\ EvaluateEnded
  /\ Len(rules) = 2
  /\ invoked = <<1, 2>>
  /\ \A i \in 1..2 : Declines(rules[i], call.arg)
  /\ out.kind = "throw"

\* C8: while the engine stores a rule whose condition is always true, an
\* evaluate call on a valid record never fails with the no-match error.
C8_CatchAllNeverNoMatch ==
  (EvaluateEnded
     /\ \E i \in 1..Len(rules) : Get(rules[i], "condition") = Fn("alwaysTrue"))
  => out # Throw(Error("No matching rule found for package data"))

\* C8 witness: the always-true rule is the last of three, was kept through an
\* addRule, and evaluate got to it and returned its result.
C8_Witness ==
  /\ EvaluateEnded
  /\ Len(rules) = 3
  /\ Get(rules[3], "condition") = Fn("alwaysTrue")
  /\ Declines(rules[1], call.arg)
  /\ Declines(rules[2], call.arg)
  /\ out = Return(ResultOfRule(rules[3]))

\* C9: addRule with a valid rule whose name is the name of a stored rule
\* fails with the error 'Rule with name "<name>" already exists' and leaves
\* the stored rules unchanged.
C9_DuplicateNameRejected ==
  [][(/\ call'.op = "addRule"
      /\ Idle /\ exists
      /\ ValidRule(call'.arg)
      /\ \E i \in 1..Len(rules) : NameOf(rules[i]) = NameOf(call'.arg))
     => /\ out' = AlreadyExists(NameOf(call'.arg).s)
        /\ rules' = rules]_vars

\* C9 witness: an addRule carrying the name of the second of two stored rules
\* has failed with the already-exists error.
C9_Witness ==
  /\ call.op = "addRule"
  /\ ValidRule(call.arg)
  /\ Len(rules) = 2
  /\ NameOf(rules[1]) # NameOf(call.arg)
  /\ NameOf(rules[2]) = NameOf(call.arg)
  /\ rules[2] # call.arg
  /\ out = AlreadyExists(NameOf(call.arg).s)

\* C10: a successful addRule increases the rule count by exactly one, keeps
\* the relative order of the rules stored before, and places the new rule
\* behind every stored rule of lower or equal priority and in front of every
\* stored rule of greater priority; a rule whose priority is below all stored
\* priorities becomes the first.
C10_AddRuleInsertsInOrder ==
  [][(call'.op = "addRule" /\ Idle /\ exists /\ out'.kind = "return")
     => /\ Len(rules') = Len(rules) + 1
        /\ \E k \in 1..Len(rules') :
             /\ rules'[k] = call'.arg
             /\ RemoveAt(rules', k) = rules
             /\ \A i \in 1..(k - 1) :
                  PriorityOf(rules'[i]) <= PriorityOf(call'.arg)
             /\ \A i \in (k + 1)..Len(rules') :
                  PriorityOf(rules'[i]) > PriorityOf(call'.arg)
        /\ (\A i \in 1..Len(rules) :
              PriorityOf(call'.arg) < PriorityOf(rules[i]))
             => rules'[1] = call'.arg]_vars

\* C10 witness: a successful addRule has put its rule between two stored
\* rules, behind one of equal priority and in front of one of greater priority.
C10_Witness ==
  /\ call.op = "addRule"
  /\ out.kind = "return"
  /\ Len(rules) = 3
  /\ rules[2] = call.arg
  /\ rules[1] # call.arg
  /\ PriorityOf(rules[1]) = PriorityOf(rules[2])
  /\ PriorityOf(rules[2]) < PriorityOf(rules[3])

HasName(s, n) == \E i \in 1..Len(s) : NameOf(s[i]) = Str(n)

\* C11: a successful removeRule(name) removes exactly one rule: the rule
\* count decreases by exactly one, every other stored rule remains, and the
\* remaining rules keep their relative order.
C11_RemovesExactlyOne ==
  [][(call'.op = "removeRule" /\ Idle /\ exists /\ out'.kind = "return")
     => /\ Len(rules') = Len(rules) - 1
        /\ \E k \in 1..Len(rules) :
             /\ NameOf(rules[k]) = call'.arg
             /\ rules' = RemoveAt(rules, k)]_vars

\* C12: after a successful removeRule(name) no stored rule has that name; a
\* name that is not stored gets stored again only by a successful addRule of
\* a rule with that name; and an evaluate call invokes conditions of stored
\* rules only and returns the result of the stored rule it invoked last. So
\* until such an addRule no evaluate call invokes the condition of, or returns
\* the result from, a rule with the removed name.
C12_StoredRulesOnly ==
  call.op = "evaluate" =>
    /\ \A i \in 1..Len(invoked) : invoked[i] \in 1..Len(rules)
    /\ out.kind = "return" =>
         /\ invoked # <<>>
         /\ out.v = ResultOfRule(rules[invoked[Len(invoked)]])

\* C12: the three parts above as one property
C12_RemovedRuleGone ==
  /\ [][(call'.op = "removeRule" /\ Idle /\ exists /\ out'.kind = "return")
          => \A i \in 1..Len(rules') : NameOf(rules'[i]) # call'.arg]_vars
  /\ [][\A n \in Names :
          (exists /\ ~HasName(rules, n) /\ HasName(rules', n))
          => /\ call'.op = "addRule"
             /\ out'.kind = "return"
             /\ NameOf(call'.arg) = Str(n)]_vars
  /\ []C12_StoredRulesOnly

\* C12 witness: a removeRule has succeeded and two rules of other names stay.
C12_Witness ==
  /\ call.op = "removeRule"
  /\ out.kind = "return"
  /\ Len(rules) = 2
  /\ \A i \in 1..2 : NameOf(rules[i]) # call.arg

\* C13: removeRule fails with the error "Rule name must be a non-empty
\* string" when the name is not a string or has no non-whitespace character,
\* and with 'Rule with name "<name>" not found' when no stored rule has that
\* name; in both cases the stored rules, contents and order, are unchanged.
C13_RemoveRuleFailures ==
  [][(call'.op = "removeRule" /\ Idle /\ exists)
     => /\ (call'.arg.t # "string" \/ call'.arg.s \in Whitespace)
             => /\ out' = Throw(Error("Rule name must be a non-empty string"))
                /\ rules' = rules
        /\ (/\ call'.arg.t = "string"
            /\ call'.arg.s \notin Whitespace
            /\ \A i \in 1..Len(rules) : NameOf(rules[i]) # call'.arg)
             => /\ out' = Throw(Error("Rule with name \"" \o call'.arg.s
                                      \o "\" not found"))
                /\ rules' = rules]_vars

\* C13 witness: removeRule with a name of blanks has failed on an engine of
\* two rules.
C13_Witness ==
  /\ call.op = "removeRule"
  /\ call.arg = Str("   ")
  /\ Len(rules) = 2
  /\ out = Throw(Error("Rule name must be a non-empty string"))

\* C14 as stated: construction fails with one and the same error for an
\* argument that is not an array and for an empty array, and no engine exists
\* afterwards. The error of the non-array case is the one thrown for null.
C14_OneSameError ==
  (call.op = "new" /\ (call.arg.t # "array" \/ call.arg.elems = <<>>))
    => /\ out = constructor(Null)
       /\ ~exists

\* C14, amended: construction fails with the error "Rules must be an array"
\* for an argument that is not an array and with the different error "Rules
\* array cannot be empty" for an empty array; in both cases no engine exists
\* afterwards and no rule is stored.
C14_TwoErrors ==
  call.op = "new" =>
    /\ call.arg.t # "array"
         => /\ out = Throw(Error("Rules must be an array"))
            /\ ~exists
            /\ rules = <<>>
    /\ (call.arg.t = "array" /\ call.arg.elems = <<>>)
         => /\ out = Throw(Error("Rules array cannot be empty"))
            /\ ~exists
            /\ rules = <<>>

\* C14 witness: the construction from an empty array has failed.
C14_Witness ==
  /\ call = Call("new", Arr(<<>>))
  /\ out.kind = "throw"
  /\ ~exists

\* the conditions on a rule, each stated on the value itself
IsObject(rule) == rule.t \in {"object", "array"}
NonBlankString(v) == v.t = "string" /\ v.s \notin {"", "   "}
FiniteNonNegative(v) ==
  /\ v.t = "number"
  /\ v \notin {NaN, Infinity, NegInfinity}
  /\ v.n >= 0
WellFormed(rule) ==
  /\ IsObject(rule)
  /\ \A f \in {"name", "condition", "result", "priority"} : HasProp(rule, f)
  /\ NonBlankString(Get(rule, "name"))
  /\ Get(rule, "condition").t = "function"
  /\ NonBlankString(Get(rule, "result"))
  /\ FiniteNonNegative(Get(rule, "priority"))

\* the checks in their fixed order, each with the message of its failure
Checks(rule) ==
  << <<~IsObject(rule), "Rule must be an object">>,
     <<~HasProp(rule, "name"), "Rule is missing required property: name">>,
     <<~HasProp(rule, "condition"),
       "Rule is missing required property: condition">>,
     <<~HasProp(rule, "result"), "Rule is missing required property: result">>,
     <<~HasProp(rule, "priority"),
       "Rule is missing required property: priority">>,
     <<~NonBlankString(Get(rule, "name")),
       "Rule name must be a non-empty string">>,
     <<Get(rule, "condition").t # "function",
       "Rule condition must be a function">>,
     <<~NonBlankString(Get(rule, "result")),
       "Rule result must be a non-empty string">>,
     <<~FiniteNonNegative(Get(rule, "priority")),
       "Rule priority must be a non-negative number">> >>
FirstFailingCheck(rule) ==
  LET c == Checks(rule)
      failing == {i \in 1..Len(c) : c[i][1]}
  IN  IF failing = {} THEN "none"
      ELSE c[CHOOSE i \in failing : \A j \in failing : i <= j][2]

\* C15: a rule is accepted, by the constructor and by addRule alike, exactly
\* when it is a non-null object that has name, condition, result and priority,
\* name and result being strings with a non-whitespace character, condition a
\* function and priority a finite number >= 0 (0 and fractions accepted;
\* negative, NaN, infinite and non-numeric rejected). addRule of an accepted
\* rule returns, storing the rule, or reports that the name exists already;
\* the constructor returns an engine exactly when every element is accepted.
C15_AcceptedIffWellFormed ==
  [][/\ (call'.op = "addRule" /\ Idle /\ exists)
          => /\ WellFormed(call'.arg)
                  <=> \/ out'.kind = "return"
                      \/ /\ WellFormed(call'.arg)
                         /\ out' = AlreadyExists(NameOf(call'.arg).s)
             /\ out'.kind = "return"
                  => \E i \in 1..Len(rules') : rules'[i] = call'.arg
     /\ (/\ call'.op = "new"
         /\ call.op = "none"
         /\ call'.arg.t = "array"
         /\ call'.arg.elems # <<>>)
          => (exists' <=> \A i \in 1..Len(call'.arg.elems) :
                             WellFormed(call'.arg.elems[i]))]_vars

\* C15 witness: addRule has stored a rule of priority 1.5.
C15_Witness ==
  /\ call.op = "addRule"
  /\ out.kind = "return"
  /\ Get(call.arg, "priority") = Frac(3, 2)
  /\ \E i \in 1..Len(rules) : rules[i] = call.arg

\* C16: validation reports the first failing check in the order: not an
\* object; a missing property (the first missing one of name, condition,
\* result, priority); invalid name; invalid condition; invalid result;
\* invalid priority. So a missing property is reported even when a present
\* property listed before it is invalid.
C16_FirstFailingCheck ==
  /\ (call.op = "addRule" /\ FirstFailingCheck(call.arg) # "none")
       => out = Throw(Error(FirstFailingCheck(call.arg)))
  /\ (/\ call.op = "new"
      /\ call.arg.t = "array"
      /\ Len(call.arg.elems) = 1
      /\ FirstFailingCheck(call.arg.elems[1]) # "none")
       => out = Throw(Error(FirstFailingCheck(call.arg.elems[1])))

\* C16 witness: addRule of a rule whose name is a number and which has no
\* priority has reported the missing priority.
C16_Witness ==
  /\ call.op = "addRule"
  /\ Get(call.arg, "name") = Num(1)
  /\ HasProp(call.arg, "condition")
  /\ HasProp(call.arg, "result")
  /\ ~HasProp(call.arg, "priority")
  /\ out = Throw(Error("Rule is missing required property: priority"))

\* C17: construction is all-or-nothing: when any element of the array is
\* invalid the construction fails with the validation error of the first
\* invalid element in array order, and no engine, with no subset of the
\* rules, exists afterwards.
C17_AllOrNothing ==
  (/\ call.op = "new"
   /\ call.arg.t = "array"
   /\ \E i \in 1..Len(call.arg.elems) : ~WellFormed(call.arg.elems[i]))
    => LET invalid == {i \in 1..Len(call.arg.elems) :
                         ~WellFormed(call.arg.elems[i])}
           k == CHOOSE i \in invalid : \A j \in invalid : i <= j
       IN  /\ out = Throw(Error(FirstFailingCheck(call.arg.elems[k])))
           /\ ~exists
           /\ rules = <<>>

\* C17 witness: the construction from a rule of negative priority followed
\* by null has failed with the error of the first of the two.
C17_Witness ==
  /\ call.op = "new"
  /\ call.arg.t = "array"
  /\ Len(call.arg.elems) = 2
  /\ Get(call.arg.elems[1], "priority") = Num(-1)
  /\ call.arg.elems[2] = Null
  /\ out = Throw(Error("Rule priority must be a non-negative number"))
  /\ ~exists

\* C18: evaluate of null, undefined or a primitive (string, number, boolean)
\* fails with the error "Package data must be an object"; no condition is
\* invoked and the stored rules are unchanged.
C18_InvalidPackageData ==
  [][(/\ call'.op = "evaluate"
      /\ Idle
      /\ exists
      /\ call'.arg.t \in {"null", "undefined", "string", "number", "boolean"})
     => /\ out' = Throw(Error("Package data must be an object"))
        /\ invoked' = <<>>
        /\ rules' = rules]_vars

\* C18 witness: evaluate of a number has failed on an engine of two rules.
C18_Witness ==
  /\ call = Call("evaluate", Num(1))
  /\ out = Throw(Error("Package data must be an object"))
  /\ Len(rules) = 2
  /\ invoked = <<>>

\* the arguments of the sort call
Width == Get(call.arg, "width")
Height == Get(call.arg, "height")
Length == Get(call.arg, "length")
Mass == Get(call.arg, "mass")
IsInteger(v) == v.t = "number" /\ DOMAIN v = {"t", "n"}

\* C19: with bulky = isBulky(width, height, length) and heavy = isHeavy(mass),
\* sort returns REJECTED exactly when both hold, SPECIAL exactly when exactly
\* one holds, and STANDARD exactly when neither holds.
C19_SortClassifies ==
  call.op = "sort" =>
    LET bulky == isBulky(Width, Height, Length)
        heavy == isHeavy(Mass)
    IN  /\ out = Return(Str("REJECTED")) <=> (bulky /\ heavy)
        /\ out = Return(Str("SPECIAL")) <=> (bulky # heavy)
        /\ out = Return(Str("STANDARD")) <=> (~bulky /\ ~heavy)

\* C19 witness: sort of a package that is bulky by its volume alone and heavy
\* has returned REJECTED.
C19_Witness ==
  /\ call.op = "sort"
  /\ Width = Num(100) /\ Height = Num(100) /\ Length = Num(100)
  /\ Mass = Num(20)
  /\ out = Return(Str("REJECTED"))

\* C20: for integer dimensions, zero and negative ones included, isBulky is
\* true exactly when a dimension is >= 150 or the product of the three is
\* >= 1000000; testing the dimensions first never changes the result.
C20_IsBulky ==
  (/\ call.op = "sort"
   /\ IsInteger(Width) /\ IsInteger(Height) /\ IsInteger(Length))
    => (Get(call.arg, "bulky") = Bool(TRUE)
          <=> \/ Width.n >= 150
              \/ Height.n >= 150
              \/ Length.n >= 150
              \/ Width.n * Height.n * Length.n >= 1000000)

\* C20 witness: two negative dimensions whose product with the third is
\* 1000000, no dimension reaching 150: the package is bulky.
C20_Witness ==
  /\ call.op = "sort"
  /\ Width = Num(-100) /\ Height = Num(-100) /\ Length = Num(100)
  /\ Get(call.arg, "bulky") = Bool(TRUE)

\* C21: for every mass, isHeavy(mass) is true exactly when mass >= 20: the
\* boundary value 20 is heavy, every value below 20 is not (nor is NaN, which
\* is not >= 20).
C21_IsHeavy ==
  call.op = "sort" =>
    (Get(call.arg, "heavy") = Bool(TRUE)
       <=> \/ Mass = Infinity
           \/ "n" \in DOMAIN Mass /\ Mass.n >= 20 * Den(Mass))

\* C21 witness: the mass 19.99 is not heavy.
C21_Witness ==
  /\ call.op = "sort"
  /\ Mass = Frac(1999, 100)
  /\ Get(call.arg, "heavy") = Bool(FALSE)

\* C22: an engine built from the default rules, evaluated on the record
\* {width, height, length, mass, bulky: isBulky(width, height, length),
\* heavy: isHeavy(mass)}, returns the label the decision-matrix sort returns
\* for (width, height, length, mass).
C22_EngineAgreesWithSort ==
  (/\ call.op = "evaluate"
   /\ out.kind # "pending"
   /\ HasProp(call.arg, "width")
   /\ Get(call.arg, "bulky") = Bool(isBulky(Width, Height, Length))
   /\ Get(call.arg, "heavy") = Bool(isHeavy(Mass)))
    => out = Return(sortOriginal(Width, Height, Length, Mass))

\* C22 witness: the engine has returned SPECIAL for a package of volume
\* 1000000 and mass 19.99.
C22_Witness ==
  /\ call.op = "evaluate"
  /\ Width = Num(100) /\ Height = Num(100) /\ Length = Num(100)
  /\ Mass = Frac(1999, 100)
  /\ out = Return(Str("SPECIAL"))

\* C23: sort never fails: for all numbers width, height, length and mass it
\* returns one of the labels STANDARD, SPECIAL, REJECTED and throws nothing.
C23_SortNeverFails ==
  call.op = "sort" =>
    /\ out.kind = "return"
    /\ out.v \in {Str("STANDARD"), Str("SPECIAL"), Str("REJECTED")}

\* C23 witness: sort of NaN dimensions and NaN mass has returned STANDARD.
C23_Witness ==
  /\ call.op = "sort"
  /\ Width = NaN /\ Height = NaN /\ Length = NaN
  /\ Mass = NaN
  /\ out = Return(Str("STANDARD"))

\* C29: in the default rule set the condition of 'rejected-packages' holds
\* exactly when bulky and heavy are both true, that of 'special-packages'
\* exactly when at least one of them is true, that of 'standard-packages' for
\* every record; and an engine built from these rules returns REJECTED,
\* SPECIAL, SPECIAL, STANDARD for the flag pairs (true, true), (true, false),
\* (false, true), (false, false).
C29_DefaultRules ==
  (exists /\ call.op = "evaluate" /\ call.arg.t = "object")
    => LET bulky == Get(call.arg, "bulky") = Bool(TRUE)
           heavy == Get(call.arg, "heavy") = Bool(TRUE)
           holds(name) ==
             \E i \in 1..Len(rules) :
               /\ NameOf(rules[i]) = Str(name)
               /\ Matches(rules[i], call.arg)
       IN  /\ holds("rejected-packages") <=> (bulky /\ heavy)
           /\ holds("special-packages") <=> (bulky \/ heavy)
           /\ holds("standard-packages")
           /\ out.kind # "pending"
                => out = Return(Str(IF bulky /\ heavy THEN "REJECTED"
                                    ELSE IF bulky \/ heavy THEN "SPECIAL"
                                    ELSE "STANDARD"))

\* C29 witness: the engine of the default rules has returned SPECIAL for the
\* record {bulky: false, heavy: true}.
C29_Witness ==
  /\ exists
  /\ call = Call("evaluate", Package(FALSE, TRUE))
  /\ out = Return(Str("SPECIAL"))

\* the arrangements of the elements of s in every order
Rearrangements(s) ==
  {[i \in 1..Len(s) |-> s[f[i]]] : f \in Permutations(1..Len(s))}
DistinctPriorities(s) ==
  \A i, j \in 1..Len(s) : i # j => Get(s[i], "priority") # Get(s[j], "priority")

\* C24: for valid rules of pairwise distinct priorities, the engine
\* constructed from the array in any other order gives, for every record, the
\* outcome (the same label or the same failure) that the engine constructed
\* from the array as given gives.
C24_PermutationIndependent ==
  (call.op = "new" /\ exists /\ DistinctPriorities(call.arg.elems))
    => \A q \in Rearrangements(call.arg.elems) :
         \A packageData \in Packages :
           evaluateCall(constructor(Arr(q)).v, packageData)
             = evaluateCall(rules, packageData)

\* C24 witness: an engine was constructed from two rules given in decreasing
\* order of priority, both of which match a record, with different results.
C24_Witness ==
  /\ call.op = "new"
  /\ exists
  /\ Len(rules) = 2
  /\ rules # call.arg.elems
  /\ DistinctPriorities(rules)
  /\ Matches(rules[1], Package(TRUE, FALSE))
  /\ Matches(rules[2], Package(TRUE, FALSE))
  /\ ResultOfRule(rules[1]) # ResultOfRule(rules[2])

\* the rules of s that have the priority p, in their order in s
OfPriority(s, p) == SelectSeq(s, LAMBDA rule : Get(rule, "priority") = p)
PrioritiesOf(s) == {Get(s[i], "priority") : i \in 1..Len(s)}

\* C25: rules of equal priority are stored in insertion order. The
\* constructor stores the rules of each priority in their order in the array;
\* a successful addRule puts its rule behind the stored rules of its priority
\* and leaves the order of the others; removeRule takes rules out and leaves
\* the order of the others; no other call changes the stored rules. And
\* evaluate returns the result of the first stored rule that matches, so among
\* matching rules of equal lowest priority the earliest inserted one.
C25_StoredInInsertionOrder ==
  \A i \in 1..Len(rules) :
    (/\ call.op = "evaluate"
     /\ out.kind = "return"
     /\ Matches(rules[i], call.arg)
     /\ \A j \in 1..(i - 1) : ~Matches(rules[j], call.arg))
      => out.v = ResultOfRule(rules[i])

\* C25: the steps above and the evaluation order as one property
C25_EqualPriorityInsertionOrder ==
  /\ [][/\ (call'.op = "new" /\ exists')
             => \A p \in PrioritiesOf(call'.arg.elems) :
                  OfPriority(rules', p) = OfPriority(call'.arg.elems, p)
        /\ (call'.op = "addRule" /\ Idle /\ exists /\ out'.kind = "return")
             => \A p \in PrioritiesOf(rules') :
                  OfPriority(rules', p)
                    = IF p = Get(call'.arg, "priority")
                        THEN Append(OfPriority(rules, p), call'.arg)
                        ELSE OfPriority(rules, p)
        /\ (call'.op = "removeRule" /\ Idle /\ exists)
             => \A p \in PrioritiesOf(rules) :
                  OfPriority(rules', p)
                    = SelectSeq(OfPriority(rules, p),
                                LAMBDA rule : NameOf(rule) # call'.arg)
        /\ (exists /\ call'.op \notin {"addRule", "removeRule"})
             => rules' = rules]_vars
  /\ []C25_StoredInInsertionOrder

\* C25 witness: three rules of one priority, stored in an order that is not
\* the order of their names, the last one added by addRule; evaluate has
\* returned the result of the first.
C25_Witness ==
  /\ call.op = "evaluate"
  /\ Len(rules) = 3
  /\ NameOf(rules[1]) = Str("b")
  /\ NameOf(rules[2]) = Str("a")
  /\ NameOf(rules[3]) = Str("c")
  /\ PrioritiesOf(rules) = {Num(0)}
  /\ out = Return(Str("B"))

\* C26: evaluate never changes the engine: in every step of an evaluate call,
\* whether the call goes on, returns a label or fails (record that is no
\* object, condition that throws, no matching rule), the stored rules and the
\* engine are what they were before the step.
C26_EvaluateChangesNothing ==
  [][call'.op = "evaluate" => (rules' = rules /\ exists' = exists)]_vars

\* C26 witness: an evaluate call on an engine of two rules has failed because
\* the condition of the second rule threw.
C26_Witness ==
  /\ call.op = "evaluate"
  /\ Len(rules) = 2
  /\ invoked = <<1, 2>>
  /\ Raises(rules[2], call.arg)
  /\ out.kind = "throw"

\* C27: when the loop turns of two evaluate calls on one engine are taken in
\* any order and no addRule or removeRule occurs, each call ends with the
\* outcome it has when it runs alone.
C27_InterleavedEvaluate ==
  \A c \in Callers :
    (call[c].op = "evaluate" /\ out[c] # Pending)
      => out[c] = evaluateCall(rules, call[c].arg)

\* C27 witness: the first call has returned the result of the second rule
\* while the second call is in the middle of its loop.
C27_Witness ==
  /\ call[1].op = "evaluate"
  /\ call[2].op = "evaluate"
  /\ invoked[1] = <<1, 2>>
  /\ out[1].kind = "return"
  /\ out[2] = Pending
  /\ idx[2] = 2

\* C28: once a rule has been accepted, the name, condition, result and
\* priority the engine uses for it do not change until it is removed, even if
\* the caller afterwards modifies the rule object it passed in: the stored
\* rules of an engine change by addRule and removeRule only.
C28_StoredRulesImmutable ==
  [][(exists /\ rules' # rules) => call'.op \in {"addRule", "removeRule"}]_vars

\* C30: in addRule validation comes before the duplicate-name check: a rule
\* that is invalid and has the name of a stored rule fails with its
\* validation error, not with the 'already exists' error, and the stored
\* rules are unchanged.
C30_ValidationBeforeDuplicate ==
  [][(/\ call'.op = "addRule"
      /\ Idle
      /\ exists
      /\ ~WellFormed(call'.arg)
      /\ \E i \in 1..Len(rules) : NameOf(rules[i]) = NameOf(call'.arg))
     => /\ out' = Throw(Error(FirstFailingCheck(call'.arg)))
        /\ out' # AlreadyExists(NameOf(call'.arg).s)
        /\ rules' = rules]_vars

\* C30 witness: addRule of a rule named like a stored rule and of negative
\* priority has failed with the error of the priority.
C30_Witness ==
  /\ call.op = "addRule"
  /\ \E i \in 1..Len(rules) : NameOf(rules[i]) = NameOf(call.arg)
  /\ Get(call.arg, "priority") = Num(-1)
  /\ out = Throw(Error("Rule priority must be a non-negative number"))

\* the engine a call of SpecShared acts on
EngineOf(c) == Get(c.arg, "engine").n
SourceOf(c) == Get(c.arg, "rules").s

\* C31: constructing an engine neither reorders nor changes the length of the
\* array passed in: the shared and the caller's array are after new
\* RuleEngine(array) what they were before. A sort call leaves the shared
\* array CLASSIFICATION_RULES as it is, and its outcome is the one its four
\* arguments give with the rules of the configuration, whatever calls came
\* before.
C31_ConstructorLeavesArray ==
  [][/\ call'.op = "new" => \A r \in Sources : rules'[r] = rules[r]
     /\ call'.op = "sort" =>
          /\ rules'["shared"] = rules["shared"]
          /\ rules'["shared"] = CLASSIFICATION_RULES.elems
          /\ out' = evaluateCall(constructor(CLASSIFICATION_RULES).v,
                                 call'.arg)]_vars

\* C31 witness: an engine has been constructed from a caller's array that is
\* not in priority order; its own list is in priority order and the caller's
\* array is not.
C31_Witness ==
  /\ call.op = "new"
  /\ out = Return(Undefined)
  /\ SourceOf(call) = "caller"
  /\ Len(rules["caller"]) = 2
  /\ rules["caller"] # SortByPriority(rules["caller"])
  /\ rules[exists[EngineOf(call)]] = SortByPriority(rules["caller"])

\* C32: the rule list of an engine is not shared. this.rules of an engine is
\* neither the array the engine was constructed from nor this.rules of
\* another engine, and addRule and removeRule on one engine leave the shared
\* array, the caller's array and the list of the other engine as they were.
C32_RuleListNotShared ==
  /\ [](\A e \in Engines :
          /\ exists[e] \notin Sources
          /\ \A o \in Engines \ {e} :
               exists[e] # "none" => exists[o] # exists[e])
  /\ [][call'.op \in {"addRule", "removeRule"} =>
          /\ \A r \in Sources : rules'[r] = rules[r]
          /\ \A o \in Engines \ {EngineOf(call')} :
               /\ exists'[o] = exists[o]
               /\ exists[o] # "none" => rules'[exists[o]] = rules[exists[o]]]_vars

\* C32 witness: two engines were constructed from the caller's array, addRule
\* on one of them has added a rule, and the other engine and the caller's
\* array hold what the array held.
C32_Witness ==
  /\ call.op = "addRule"
  /\ out = Return(Undefined)
  /\ \A e \in Engines : exists[e] # "none"
  /\ \E o \in Engines \ {EngineOf(call)} :
       /\ rules[exists[o]] = SortByPriority(rules["caller"])
       /\ Len(rules[exists[EngineOf(call)]]) = Len(rules[exists[o]]) + 1
  /\ Len(rules["caller"]) = 1

\* C33: round trip. A successful addRule(r) stores r at one position and
\* leaves the other rules and their order as they were; removeRule(r.name)
\* called next succeeds and takes out the rule at that position only. The
\* rule sequence after the two calls is the one before them.
C33_RoundTrip ==
  [][/\ (call'.op = "addRule" /\ Idle /\ out' = Return(Undefined)) =>
          /\ \E k \in 1..Len(rules') : rules'[k] = call'.arg
          /\ \A k \in 1..Len(rules') :
               rules'[k] = call'.arg => RemoveAt(rules', k) = rules
     /\ (/\ call.op = "addRule"
         /\ out = Return(Undefined)
         /\ call'.op = "removeRule"
         /\ call'.arg = NameOf(call.arg)) =>
          /\ out' = Return(Undefined)
          /\ \E k \in 1..Len(rules) : rules[k] = call.arg
          /\ \A k \in 1..Len(rules) :
               rules[k] = call.arg => rules' = RemoveAt(rules, k)]_vars

\* C33 witness: addRule has stored a rule between two stored rules, the one
\* behind it of greater priority number, so that removeRule of its name has
\* to close the gap.
C33_Witness ==
  /\ call.op = "addRule"
  /\ out = Return(Undefined)
  /\ \E k \in 1..(Len(rules) - 1) :
       /\ rules[k] = call.arg
       /\ 1 < k
       /\ PriorityOf(rules[k]) < PriorityOf(rules[k + 1])

\* the values JavaScript takes for false in a test: false, 0, "", null,
\* undefined and NaN
Falsy(v) == v \in {Bool(FALSE), Num(0), Str(""), Null, Undefined, NaN}
\* the positions of the stored rules whose condition returns for the record
\* of the call a value that is not falsy
TruthyAt ==
  {i \in 1..Len(rules) : ~Falsy(ConditionOutcome(rules[i], call.arg).v)}

\* C34: evaluate decides a match by the truthiness of the value the condition
\* returns. A rule whose condition returns a falsy value, boolean or not
\* (undefined for a record without flags), does not match and the scan goes
\* on; the first rule whose condition returns a truthy value, boolean or
\* not, gives the result. With the default rules a record without the flags
\* is classified STANDARD.
C34_Truthiness ==
  EvaluateEnded =>
    /\ IF TruthyAt = {}
         THEN out = NoMatchingRule
         ELSE \E k \in TruthyAt :
                /\ \A j \in TruthyAt : k <= j
                /\ out = Return(ResultOfRule(rules[k]))
    /\ (rules = CLASSIFICATION_RULES.elems /\ call.arg = Obj(EmptyProps))
         => out = Return(Str(STANDARD))

\* C34 witness: the default rules on the record { bulky: "yes" }: the first
\* condition returned undefined and the scan went on, the second returned
\* "yes" and the call returned SPECIAL.
C34_Witness ==
  /\ EvaluateEnded
  /\ rules = CLASSIFICATION_RULES.elems
  /\ call.arg = Obj([bulky |-> Str("yes")])
  /\ ConditionOutcome(rules[1], call.arg) = Return(Undefined)
  /\ ConditionOutcome(rules[2], call.arg) = Return(Str("yes"))
  /\ out = Return(Str(SPECIAL))
  /\ invoked = <<1, 2>>

====
